---- MODULE Spec2Model ----
(***************************************************************************)
(* Model of the OpenSubmit executor job API                                *)
(* (src/executor/opensubmitexec/job.py).                                   *)
(*                                                                         *)
(* One harness process handles jobs one after another.  sys.path is state  *)
(* of the process and survives a job; every other variable belongs to the  *)
(* Job object that is currently handled.  Texts are modelled as sequences  *)
(* of string chunks, so that str.format and + are sequence concatenation.  *)
(*                                                                         *)
(* Next to it stand the teacher backend of the web application             *)
(* (src/opensubmit/admin.py), each part with a specification of its own,   *)
(* and from_cmd of the host information module                             *)
(* (src/executor/opensubmit/executor/hostinfo.py).                         *)
(***************************************************************************)
EXTENDS Integers, Sequences, FiniteSets, TLC

VARIABLES
    sys_path,      \* sys.path of the harness process
    working_dir,   \* Job.working_dir
    timeout,       \* Job.timeout
    online,        \* Job._online
    result_sent,   \* Job.result_sent
    dircontent,    \* names of the files in Job.working_dir
    pc,            \* position of the current job, see PCs
    old_path,      \* local variable old_path of _run_validate
    exc,           \* the exception that ended validate(), or NoException
    reports,       \* history: the calls of _send_result made for this job
    wire,          \* history: payloads handed to server.send for this job
    path_at_call,  \* history: sys.path when _run_validate was entered
    calls,         \* history: the method that made each call in reports
    sent_at_end,   \* history: Len(reports) when validate() ended
    runs,          \* number of jobs handled so far by this process
    frame,         \* the call of a Job method that validate() has made
    sys_modules,   \* sys.modules['validator']: the globals of the module
    validator_defs, \* the names that validator.py of this job defines
    submission_state, \* web: Submission.state of each submission
    reupload,      \* web: the last answer of Submission.can_reupload
    full_test,     \* web: the assignments for which has_full_test() holds
    last_request,  \* web: history, the admin request that ended last
    closing,       \* web: a closeAndNotifyAction between loop and update
    course_owner,  \* web: Course.owner of each course
    course_tutors, \* web: Course.tutors of each course
    listed,        \* web: the last result of a get_queryset of admin.py
    host_call      \* hostinfo: the last call of from_cmd and what it gave

\* the fields of the Job object and the history kept for it
jobfields == <<working_dir, timeout, online, result_sent, dircontent,
               old_path, exc, reports, wire, calls, path_at_call,
               sent_at_end, runs, validator_defs>>

\* the state of the web application
webvars == <<submission_state, reupload, full_test, last_request, closing,
             course_owner, course_tutors, listed>>

\* the state of the executor
execvars == <<sys_path, working_dir, timeout, online, result_sent,
              dircontent, pc, old_path, exc, reports, wire, calls,
              path_at_call, sent_at_end, runs, frame, sys_modules,
              validator_defs>>

vars == <<sys_path, working_dir, timeout, online, result_sent, dircontent,
          pc, old_path, exc, reports, wire, calls, path_at_call, sent_at_end,
          runs, frame, sys_modules, validator_defs, submission_state,
          reupload, full_test, last_request, closing, course_owner,
          course_tutors, listed, host_call>>

\* the state of the host information module
hostvars == <<host_call>>

(***************************************************************************)
(* Bounds                                                                  *)
(***************************************************************************)
\* jobs handled by one harness process
MaxRuns == 2
\* explicit send_pass_result / send_fail_result calls of one validate()
MaxReports == 2
\* bytes of child output captured in spawn.before
MaxOutLen == 1

(***************************************************************************)
(* Constants of the program and input domains                              *)
(***************************************************************************)
UNSPECIFIC_ERROR == -9999

_validator_import_name == "validator"

\* Python's None for an int-valued attribute: <<>> is None, <<n>> is n
None == <<>>

Some(n) == <<n>>

WorkingDirs == {"/tmp/job1/", "/tmp/job2/"}

Timeouts == {5, 30}

DirListings == {{"validator.py", "main.c"}, {"main.c"},
                {"validator.py", "main.c", "configure"}}

\* child exit status as pexpect reports it: None when not known
ExitStatuses == {None, Some(0), Some(3)}

\* bytes a child may print: an ASCII letter and a byte that is not UTF-8
Bytes == {97, 255}

ByteStrings == UNION {[1..n -> Bytes] : n \in 0..MaxOutLen}

PCs == {"ready", "validate", "called", "returned", "raised"}

(***************************************************************************)
(* Exceptions that validate() may raise (instances of Exception)           *)
(***************************************************************************)
NoException ==
    [type |-> "none", real_exception |-> "none", exitstatus |-> None,
     before |-> <<>>, info_student |-> <<>>, info_tutor |-> <<>>,
     result_exit |-> None, text |-> ""]

\* RunningProgramException(instance, real_exception); a child that has
\* not ended has no exit status
RunningProgramExceptions ==
    {[type |-> "RunningProgramException", real_exception |-> r,
      exitstatus |-> x, before |-> b, info_student |-> <<>>,
      info_tutor |-> <<>>, result_exit |-> None, text |-> t] :
        r \in {"EOF", "TIMEOUT", "ExceptionPexpect"}, x \in ExitStatuses,
        b \in ByteStrings, t \in {"pexpect failure"}}
    \ {e \in [type : {"RunningProgramException"},
               real_exception : {"TIMEOUT", "ExceptionPexpect"},
               exitstatus : ExitStatuses \ {None}, before : ByteStrings,
               info_student : {<<>>}, info_tutor : {<<>>},
               result_exit : {None}, text : {"pexpect failure"}] : TRUE}

\* JobException(result): carries the Result of the failed tool run
JobExceptions ==
    {[type |-> "JobException", real_exception |-> "none",
      exitstatus |-> None, before |-> <<>>,
      info_student |-> <<"student: ", m>>, info_tutor |-> <<"tutor: ", m>>,
      result_exit |-> x, text |-> m] :
        m \in {"gcc failed"}, x \in {None, Some(2)}}

\* any other Exception raised by validator code
OtherExceptions ==
    {[type |-> ty, real_exception |-> "none", exitstatus |-> None,
      before |-> <<>>, info_student |-> <<>>, info_tutor |-> <<>>,
      result_exit |-> None, text |-> t] :
        ty \in {"ZeroDivisionError", "KeyError"},
        t \in {"division by zero"}}

Exceptions == RunningProgramExceptions \cup JobExceptions \cup OtherExceptions

\* an Exception of the given type that is none of the two harness types
OtherException(ty, t) ==
    [type |-> ty, real_exception |-> "none", exitstatus |-> None,
     before |-> <<>>, info_student |-> <<>>, info_tutor |-> <<>>,
     result_exit |-> None, text |-> t]

\* Result of one tool run: is_ok() and the exit status
Result(tool, ok) ==
    [tool |-> tool, ok |-> ok, exit |-> IF ok THEN Some(0) ELSE Some(1)]

NoResult == [tool |-> "none", ok |-> TRUE, exit |-> None]

is_ok(result) == result.ok

\* JobException(result)
JobException(result) ==
    [type |-> "JobException", real_exception |-> "none",
     exitstatus |-> None, before |-> <<>>,
     info_student |-> <<"student: ", result.tool>>,
     info_tutor |-> <<"tutor: ", result.tool>>,
     result_exit |-> result.exit, text |-> result.tool]

\* what RunningProgram(...).expect_end() raises when configure fails
ConfigureFailure ==
    [type |-> "RunningProgramException", real_exception |-> "EOF",
     exitstatus |-> Some(1), before |-> <<>>, info_student |-> <<>>,
     info_tutor |-> <<>>, result_exit |-> None, text |-> "pexpect failure"]

(***************************************************************************)
(* Pure helpers                                                            *)
(***************************************************************************)
\* Python truth value of an int-or-None attribute
Truthy(x) == x # None /\ x[1] # 0

\* the default timeout of spawn_program in place of the argument
FormatInt_Default(n) == "30"

\* "{0}".format(n) for an integer
FormatInt(n) == ToString(n)

\* one decoded character of a UTF-8 byte (single-byte code points only)
Chr(b) == IF b = 97 THEN "a" ELSE "?"

\* str(b, encoding='utf-8') succeeds iff all bytes form valid UTF-8
Decodable(b) == \A i \in 1..Len(b) : b[i] < 128

\* str(b, encoding='utf-8')
Decode(b) == [i \in 1..Len(b) |-> Chr(b[i])]

\* Job.validator_script_name, relative to the working directory
validator_script_name == _validator_import_name \o ".py"

(***************************************************************************)
(* Failure classification of _run_validate (the except block)              *)
(***************************************************************************)
\* error_code with the exit status tested by "is not None"
ErrorCodeOf_IsNotNone(e) ==
    IF e.type = "RunningProgramException"
       /\ e.real_exception = "EOF"
       /\ e.exitstatus # None
    THEN e.exitstatus[1]
    ELSE UNSPECIFIC_ERROR

\* error_code also taken from the Result that a JobException carries
ErrorCodeOf_FromResult(e) ==
    IF e.type = "RunningProgramException"
       /\ e.real_exception = "EOF"
       /\ Truthy(e.exitstatus)
    THEN e.exitstatus[1]
    ELSE IF e.type = "JobException" /\ Truthy(e.result_exit)
    THEN e.result_exit[1]
    ELSE UNSPECIFIC_ERROR

\* error_code as lines 106-111 leave it
ErrorCodeOf(e) ==
    IF e.type = "RunningProgramException"
       /\ e.real_exception = "EOF"
       /\ Truthy(e.exitstatus)
    THEN e.exitstatus[1]
    ELSE UNSPECIFIC_ERROR

\* "\n\nOutput so far: " + output, appended for a RunningProgramException
OutputSoFar(e) == <<"\n\nOutput so far: ">> \o Decode(e.before)

\* text_student of a RunningProgramException, lines 109-121
InteractiveTextStudent(e, t) ==
    (IF e.real_exception = "EOF"
     THEN <<"Your program terminated unexpectedly.">>
     ELSE IF e.real_exception = "TIMEOUT"
     THEN <<"The execution of your program was cancelled, since it took longer than ",
            FormatInt(t), " seconds. ">>
     ELSE <<"Unexpected problem during the execution of your program. ",
            e.text>>)
    \o OutputSoFar(e)

\* text_tutor of a RunningProgramException, lines 109-122
InteractiveTextTutor(e, t) ==
    (IF e.real_exception = "EOF"
     THEN <<"The student program terminated unexpectedly.">>
     ELSE IF e.real_exception = "TIMEOUT"
     THEN <<"The execution of the program was cancelled due to the timeout of ",
            FormatInt(t), " seconds. ">>
     ELSE <<"Unkown exception during the execution of the student program. ",
            e.text>>)
    \o OutputSoFar(e)

\* text_student with the final else branch missing
TextStudent_NoElse(e, t) ==
    IF e.type = "RunningProgramException"
    THEN InteractiveTextStudent(e, t)
    ELSE e.info_student

\* text_student as lines 104-130 leave it
TextStudent(e, t) ==
    IF e.type = "RunningProgramException"
    THEN InteractiveTextStudent(e, t)
    ELSE IF e.type = "JobException"
    THEN e.info_student
    ELSE <<"Internal problem while validating your submission. ", e.text>>

\* text_tutor as lines 104-130 leave it
TextTutor(e, t) ==
    IF e.type = "RunningProgramException"
    THEN InteractiveTextTutor(e, t)
    ELSE IF e.type = "JobException"
    THEN e.info_tutor
    ELSE <<"Unknown exception while running the validator. ", e.text>>

\* line 120 raises UnicodeDecodeError inside the except block
HandlerRaises(e) ==
    e.type = "RunningProgramException" /\ ~Decodable(e.before)

(***************************************************************************)
(* Result reporting                                                        *)
(***************************************************************************)
\* the fields of post_data that depend on the call
PostData(info_student, info_tutor, error_code) ==
    [Message |-> info_student, MessageTutor |-> info_tutor,
     ExecutorDir |-> working_dir, ErrorCode |-> error_code]

\* _send_result that marks the job only after a transmission
_send_result_OnlineOnly(info_student, info_tutor, error_code) ==
    /\ reports' = Append(reports,
                         PostData(info_student, info_tutor, error_code))
    /\ wire' = IF online
               THEN Append(wire,
                           PostData(info_student, info_tutor, error_code))
               ELSE wire
    /\ result_sent' = (result_sent \/ online)

\* _send_result that does nothing for a job already marked
_send_result_Once(info_student, info_tutor, error_code) ==
    /\ reports' = IF result_sent
                  THEN reports
                  ELSE Append(reports,
                              PostData(info_student, info_tutor, error_code))
    /\ wire' = IF online /\ ~result_sent
               THEN Append(wire,
                           PostData(info_student, info_tutor, error_code))
               ELSE wire
    /\ result_sent' = TRUE

\* _send_result that flips the mark
_send_result_Toggle(info_student, info_tutor, error_code) ==
    /\ reports' = Append(reports,
                         PostData(info_student, info_tutor, error_code))
    /\ wire' = IF online
               THEN Append(wire,
                           PostData(info_student, info_tutor, error_code))
               ELSE wire
    /\ result_sent' = ~result_sent

_send_result(info_student, info_tutor, error_code) ==
    /\ reports' = Append(reports,
                         PostData(info_student, info_tutor, error_code))
    /\ wire' = IF online
               THEN Append(wire,
                           PostData(info_student, info_tutor, error_code))
               ELSE wire
    /\ result_sent' = TRUE

send_fail_result(info_student, info_tutor) ==
    /\ _send_result(info_student, info_tutor, UNSPECIFIC_ERROR)
    /\ calls' = Append(calls, "send_fail_result")

\* default arguments of send_pass_result
DefaultInfoStudent == <<"All tests passed. Awesome!">>

DefaultInfoTutor == <<"All tests passed.">>

\* send_pass_result reporting the code of send_fail_result
send_pass_result_Unspecific(info_student, info_tutor) ==
    /\ _send_result(info_student, info_tutor, UNSPECIFIC_ERROR)
    /\ calls' = Append(calls, "send_pass_result")

send_pass_result(info_student, info_tutor) ==
    /\ _send_result(info_student, info_tutor, 0)
    /\ calls' = Append(calls, "send_pass_result")

(***************************************************************************)
(* Build, run and query methods of Job.  A method is a function from the   *)
(* call so far to the call after it: the tools it ran, in order, with      *)
(* their Results, the exception it raised and the value it returned.  A    *)
(* call that has raised runs nothing more.                                 *)
(***************************************************************************)
\* values a method returns
PyNone == [kind |-> "None", tool |-> "none", ok |-> FALSE]

PyBool(b) == [kind |-> "bool", tool |-> "none", ok |-> b]

PyResult(result) ==
    [kind |-> "Result", tool |-> result.tool, ok |-> result.ok]

PyRunningProgram == [kind |-> "RunningProgram", tool |-> "none", ok |-> TRUE]

NoCall ==
    [op |-> "none", mandatory |-> FALSE, exclusive |-> FALSE,
     filenames |-> <<>>, cmdline |-> <<>>, events |-> <<>>,
     raised |-> NoException, carried |-> NoResult, retval |-> PyNone]

\* the call has run this tool and got this Result
Ran(c, result) == [c EXCEPT !.events = Append(@, result)]

\* the call raises e, which carries result
Raise(c, e, result) == [c EXCEPT !.raised = e, !.carried = result]

\* filesystem.has_file(working_dir, fname)
has_file(fname) == fname \in dircontent

\* run_configure that re-raises whatever mandatory says
run_configure_AlwaysRaises(c, mandatory, conf_ok) ==
    IF c.raised # NoException THEN c
    ELSE IF ~has_file("configure")
    THEN Raise(c, OtherException("FileNotFoundError",
                   "Could not find a configure script for execution."),
               NoResult)
    ELSE IF ~conf_ok
    THEN Raise(Ran(c, Result("configure", conf_ok)), ConfigureFailure,
               NoResult)
    ELSE Ran(c, Result("configure", conf_ok))

\* Job.run_configure, lines 173-186
run_configure(c, mandatory, conf_ok) ==
    IF c.raised # NoException THEN c
    ELSE IF ~has_file("configure")
    THEN Raise(c, OtherException("FileNotFoundError",
                   "Could not find a configure script for execution."),
               NoResult)
    ELSE IF ~conf_ok /\ mandatory
    THEN Raise(Ran(c, Result("configure", conf_ok)), ConfigureFailure,
               NoResult)
    ELSE Ran(c, Result("configure", conf_ok))

\* Job.run_make, lines 191-198
run_make(c, mandatory, make_ok) ==
    IF c.raised # NoException THEN c
    ELSE IF mandatory /\ ~is_ok(Result("make", make_ok))
    THEN Raise(Ran(c, Result("make", make_ok)),
               JobException(Result("make", make_ok)),
               Result("make", make_ok))
    ELSE Ran(c, Result("make", make_ok))

\* Job.run_compiler, lines 200-207
run_compiler(c, cc_ok) ==
    IF c.raised # NoException THEN c
    ELSE IF ~is_ok(Result("compiler", cc_ok))
    THEN Raise(Ran(c, Result("compiler", cc_ok)),
               JobException(Result("compiler", cc_ok)),
               Result("compiler", cc_ok))
    ELSE Ran(c, Result("compiler", cc_ok))

\* run_build that runs make before configure
run_build_MakeFirst(c, conf_ok, make_ok, cc_ok) ==
    run_compiler(run_configure(run_make(c, FALSE, make_ok), FALSE, conf_ok),
                 cc_ok)

\* Job.run_build, lines 209-214
run_build(c, conf_ok, make_ok, cc_ok) ==
    run_compiler(run_make(run_configure(c, FALSE, conf_ok), FALSE, make_ok),
                 cc_ok)

\* evaluating self.config: Job has _config and no attribute config
self_config_raises ==
    OtherException("AttributeError",
                   "'Job' object has no attribute 'config'")

\* cmdline of run_program, lines 238-244
cmdline_of(name, arguments) ==
    IF arguments # <<>> THEN name \o arguments ELSE name

\* Job.run_program, lines 229-251; it has no return statement
run_program(c, name, arguments, exclusive, run_ok) ==
    IF exclusive
    THEN Raise([c EXCEPT !.cmdline = cmdline_of(name, arguments)],
               self_config_raises, NoResult)
    ELSE LET c1 == Ran([c EXCEPT !.cmdline = cmdline_of(name, arguments)],
                       Result("shell_execution", run_ok))
         IN  IF ~is_ok(Result("shell_execution", run_ok))
             THEN Raise(c1, JobException(Result("shell_execution", run_ok)),
                        Result("shell_execution", run_ok))
             ELSE [c1 EXCEPT !.retval = PyNone]

\* Job.spawn_program, lines 216-227
spawn_program(c, name, arguments, exclusive) ==
    IF exclusive
    THEN Raise(c, self_config_raises, NoResult)
    ELSE [Ran([c EXCEPT !.cmdline = name \o arguments],
              Result("RunningProgram", TRUE))
          EXCEPT !.retval = PyRunningProgram]

\* the loop of ensure_files that stops at the first name it finds
RECURSIVE ensure_files_loop_Any(_, _)
ensure_files_loop_Any(filenames, i) ==
    IF i > Len(filenames) THEN FALSE
    ELSE IF filenames[i] \in dircontent THEN TRUE
    ELSE ensure_files_loop_Any(filenames, i + 1)

\* the loop of Job.ensure_files, lines 270-273, from the i-th name on
RECURSIVE ensure_files_loop(_, _)
ensure_files_loop(filenames, i) ==
    IF i > Len(filenames) THEN TRUE
    ELSE IF filenames[i] \notin dircontent THEN FALSE
    ELSE ensure_files_loop(filenames, i + 1)

\* Job.ensure_files, lines 262-273
ensure_files(c, filenames) ==
    [c EXCEPT !.filenames = filenames,
              !.retval = PyBool(ensure_files_loop(filenames, 1))]

\* arguments that validators pass
ProgramNames == {<<"./a.out">>}

ProgramArguments == {<<>>, <<"-v">>}

FileRequests == {<<>>, <<"main.c">>, <<"main.c", "test.c">>,
                 <<"test.c", "main.c">>}

(***************************************************************************)
(* The validator module in sys.modules                                     *)
(***************************************************************************)
\* names a validator.py may define at its top level
GlobalNames == {"validate", "cache"}

ValidatorFiles == {{"validate"}, {"validate", "cache"}}

\* no module of that name is in sys.modules; else the module's globals,
\* each name with the run whose load defined it (0: not defined)
NoModule == [n \in GlobalNames |-> 0]

\* executing validator.py in the module's dict: names it defines are
\* rebound, every other name of the dict stays
exec_module(globals, defs, run) ==
    [n \in GlobalNames |-> IF n \in defs THEN run ELSE globals[n]]

\* importlib.import_module: the cached module, or a first load
import_module(globals, defs, run) ==
    IF globals # NoModule THEN globals
    ELSE exec_module(NoModule, defs, run)

\* importlib.reload: executes the file again in the same dict
reload(globals, defs, run) == exec_module(globals, defs, run)

(***************************************************************************)
(* The web application: submissions and what a student may do with them    *)
(***************************************************************************)
\* the states of Submission.STATES that the sources name
SubmissionStates ==
    {"SUBMITTED", "SUBMITTED_TESTED", "TEST_COMPILE_FAILED",
     "TEST_VALIDITY_FAILED", "TEST_FULL_PENDING", "TEST_FULL_FAILED",
     "GRADING_IN_PROGRESS", "GRADED", "CLOSED", "CLOSED_TEST_FULL_PENDING",
     "WITHDRAWN"}

\* the submissions of createSubmissions, one per assignment
Submissions ==
    {"openAssignmentSub", "softDeadlinePassedAssignmentSub",
     "hardDeadlinePassedAssignmentSub"}

\* has the hard deadline of the submission's assignment passed
hard_deadline_passed(sub) == sub = "hardDeadlinePassedAssignmentSub"

\* can_reupload that forgets the deadline
can_reupload_NoDeadline(state, deadline_passed) ==
    state \in {"TEST_COMPILE_FAILED", "TEST_VALIDITY_FAILED",
               "TEST_FULL_FAILED"}

\* Submission.can_reupload for the student who owns the submission
can_reupload(state, deadline_passed) ==
    /\ state \in {"TEST_COMPILE_FAILED", "TEST_VALIDITY_FAILED",
                  "TEST_FULL_FAILED"}
    /\ ~deadline_passed

\* the value testCanOrCannotReuploadSubmissions asserts, lines 77-88
expected_can_reupload(state, sub) ==
    IF state \in {"TEST_COMPILE_FAILED", "TEST_VALIDITY_FAILED",
                  "TEST_FULL_FAILED"}
    THEN (IF sub = "openAssignmentSub" THEN TRUE
          ELSE IF sub = "softDeadlinePassedAssignmentSub" THEN TRUE
          ELSE FALSE)
    ELSE FALSE

NoAnswer == [sub |-> "none", answer |-> FALSE, expected |-> FALSE]

(***************************************************************************)
(* The teacher backend: SubmissionAdmin of opensubmit/admin.py.  The table *)
(* of submissions is submission_state; a queryset is the set of the rows   *)
(* it selects, and it is evaluated against the table when it is iterated   *)
(* or updated, not when it is built.                                       *)
(***************************************************************************)
\* the submissions in the order of their primary keys (createSubmissions)
SubmissionOrder ==
    <<"openAssignmentSub", "softDeadlinePassedAssignmentSub",
      "hardDeadlinePassedAssignmentSub">>

\* submission.assignment
assignment_of(sub) ==
    IF sub = "openAssignmentSub" THEN "openAssignment"
    ELSE IF sub = "softDeadlinePassedAssignmentSub"
    THEN "softDeadlinePassedAssignment"
    ELSE "hardDeadlinePassedAssignment"

Assignments == {assignment_of(sub) : sub \in Submissions}

\* the states that admin.py names
AdminStates ==
    {"SUBMITTED", "SUBMITTED_TESTED", "TEST_FULL_PENDING",
     "TEST_FULL_FAILED", "GRADING_IN_PROGRESS", "GRADED", "CLOSED",
     "CLOSED_TEST_FULL_PENDING", "WITHDRAWN"}

\* what an admin action can be run on: the rows ticked in the change list
Querysets == SUBSET Submissions \ {{}}

\* request.POST of the change form: with or without the key newstate
NoPost == [k \in {} |-> ""]

PostForms ==
    {NoPost} \cup {[k \in {"newstate"} |-> v] :
                      v \in {"finished", "unfinished", "reopen"}}

\* queryset.filter(Q(state=...) | ...), evaluated against the table now
filter_state(queryset, states) ==
    {sub \in queryset : submission_state[sub] \in states}

\* the rows of a queryset as iteration yields them
RECURSIVE rows_from(_, _)
rows_from(queryset, i) ==
    IF i > Len(SubmissionOrder) THEN <<>>
    ELSE IF SubmissionOrder[i] \in queryset
    THEN <<SubmissionOrder[i]>> \o rows_from(queryset, i + 1)
    ELSE rows_from(queryset, i + 1)

rows(queryset) == rows_from(queryset, 1)

\* subm.assignment.has_full_test()
has_full_test(sub) == assignment_of(sub) \in full_test

\* save_model that treats every posted newstate as 'finished'
save_model_state_AnyFinished(state, post) ==
    IF "newstate" \in DOMAIN post THEN "GRADED" ELSE state

\* obj.state after lines 221-225 of save_model
save_model_state(state, post) ==
    IF "newstate" \in DOMAIN post
    THEN (IF post["newstate"] = "finished" THEN "GRADED"
          ELSE IF post["newstate"] = "unfinished" THEN "GRADING_IN_PROGRESS"
          ELSE state)
    ELSE state

\* the filter of setFullPendingStateAction without Q(state=CLOSED)
full_pending_qs_NoClosed(queryset) ==
    filter_state(queryset, {"SUBMITTED_TESTED", "TEST_FULL_FAILED"})

\* qs of setFullPendingStateAction, line 236
full_pending_qs(queryset) ==
    filter_state(queryset, {"SUBMITTED_TESTED", "TEST_FULL_FAILED", "CLOSED"})

\* subm.state after one round of the loop of setFullPendingStateAction
full_pending_state(sub) ==
    IF has_full_test(sub)
    THEN (IF submission_state[sub] = "CLOSED"
          THEN "CLOSED_TEST_FULL_PENDING"
          ELSE "TEST_FULL_PENDING")
    ELSE submission_state[sub]

\* the filter of closeAndNotifyAction that also takes what is being graded
close_qs_InProgress(queryset) ==
    filter_state(queryset, {"GRADED", "GRADING_IN_PROGRESS"})

\* qs of closeAndNotifyAction, line 258
close_qs(queryset) == filter_state(queryset, {"GRADED"})

\* self.message_user of the two actions
NothingChanged == <<"Nothing changed, no testable submission found.">>

ChangedStatus(numchanged) ==
    <<"Changed status of ", ToString(numchanged), " submissions.">>

NothingClosed == <<"Nothing closed, no mails sent.">>

MailSent(mails) == <<"Mail sent for submissions: ">> \o mails

\* the assignments that may have a full test script
FullTestChoices ==
    {{"openAssignment", "softDeadlinePassedAssignment"}, Assignments}

\* no admin request has run yet
NoRequest ==
    [op |-> "none", queryset |-> {}, post |-> NoPost, saves |-> 0,
     informed |-> <<>>, message |-> <<>>]

\* no closeAndNotifyAction is between its loop and its update
NoClosing ==
    [active |-> FALSE, queryset |-> {}, informed |-> <<>>, mails |-> <<>>]

(***************************************************************************)
(* The teacher backend: what get_queryset lists for a user.  A filter over *)
(* a many-valued relation joins the tables, so a queryset is a sequence of *)
(* rows in which an object occurs once for every joined row that matches.  *)
(***************************************************************************)
Users == {"root", "tutorA", "tutorB"}

\* user.is_superuser
is_superuser(user) == user = "root"

Courses == {"course1", "course2"}

\* assignment.course
course_of(assignment) ==
    IF assignment = "hardDeadlinePassedAssignment" THEN "course2"
    ELSE "course1"

\* the submission files: file2 is the upload of two submissions, file3 of
\* none
SubmissionFiles == <<"file1", "file2", "file3">>

\* submfile.submissions
submissions_of(file) ==
    IF file = "file1" THEN {"openAssignmentSub"}
    ELSE IF file = "file2"
    THEN {"softDeadlinePassedAssignmentSub",
          "hardDeadlinePassedAssignmentSub"}
    ELSE {}

CourseOrder == <<"course1", "course2">>

\* the rows of the join of a course with its tutors that satisfy
\* Q(tutors__pk=user.pk) | Q(owner=user); a course without tutors joins
\* to one row without a tutor
course_matches(course, user) ==
    IF course_tutors[course] = {}
    THEN (IF course_owner[course] = user THEN 1 ELSE 0)
    ELSE Cardinality({t \in course_tutors[course] :
                        t = user \/ course_owner[course] = user})

\* the same for a submission, through assignment__course
submission_matches(sub, user) ==
    course_matches(course_of(assignment_of(sub)), user)

\* the same for a submission file, through submissions__assignment__course
RECURSIVE file_matches_from(_, _, _)
file_matches_from(file, user, i) ==
    IF i > Len(SubmissionOrder) THEN 0
    ELSE (IF SubmissionOrder[i] \in submissions_of(file)
          THEN submission_matches(SubmissionOrder[i], user)
          ELSE 0)
         + file_matches_from(file, user, i + 1)

file_matches(file, user) == file_matches_from(file, user, 1)

\* n rows of the object x
Repeat(x, n) == [i \in 1..n |-> x]

\* QuerySet.distinct(): every row once, in the order of first occurrence
RECURSIVE distinct_from(_, _)
distinct_from(qs, i) ==
    IF i > Len(qs) THEN <<>>
    ELSE IF \E j \in 1..(i - 1) : qs[j] = qs[i]
    THEN distinct_from(qs, i + 1)
    ELSE <<qs[i]>> \o distinct_from(qs, i + 1)

\* a queryset that is left as the join made it
distinct_Keep(qs) == qs

distinct(qs) == distinct_from(qs, 1)

\* SubmissionAdmin.get_queryset(request), lines 170-176
RECURSIVE submission_rows(_, _)
submission_rows(user, i) ==
    IF i > Len(SubmissionOrder) THEN <<>>
    ELSE Repeat(SubmissionOrder[i],
                submission_matches(SubmissionOrder[i], user))
         \o submission_rows(user, i + 1)

SubmissionAdmin_get_queryset(user) ==
    IF is_superuser(user) THEN SubmissionOrder
    ELSE distinct(submission_rows(user, 1))

\* SubmissionFileAdmin.get_queryset(request), lines 310-316
RECURSIVE file_rows(_, _)
file_rows(user, i) ==
    IF i > Len(SubmissionFiles) THEN <<>>
    ELSE Repeat(SubmissionFiles[i], file_matches(SubmissionFiles[i], user))
         \o file_rows(user, i + 1)

SubmissionFileAdmin_get_queryset(user) ==
    IF is_superuser(user) THEN SubmissionFiles
    ELSE distinct(file_rows(user, 1))

\* CourseAdmin.get_queryset(request), lines 397-403
RECURSIVE course_rows(_, _)
course_rows(user, i) ==
    IF i > Len(CourseOrder) THEN <<>>
    ELSE Repeat(CourseOrder[i], course_matches(CourseOrder[i], user))
         \o course_rows(user, i + 1)

CourseAdmin_get_queryset(user) ==
    IF is_superuser(user) THEN CourseOrder
    ELSE distinct(course_rows(user, 1))

\* nothing has been listed yet
NoListing == [admin |-> "none", user |-> "none", qs |-> <<>>]

(***************************************************************************)
(* Host information: from_cmd of executor/opensubmit/executor/hostinfo.py. *)
(* A text is the sequence of its characters.                               *)
(***************************************************************************)
\* the modules that hostinfo.py imports at its top, line 5
hostinfo_imports == {"platform"}

HostCommands == {"cc -v", "java -version", "mpirun -version"}

StdHandles == {" 2>&1", ""}

ReturnCodes == {0, 1, 127}

\* what the child writes and how it exits
Children ==
    [returncode : ReturnCodes, stdout : ByteStrings, stderr : ByteStrings]

\* p.stdout.read(): the shell sends stderr there too for " 2>&1"
stdout_read(child, stdhndl, e_shell) ==
    IF e_shell /\ stdhndl = " 2>&1" THEN child.stdout \o child.stderr
    ELSE child.stdout

\* p.stderr.read()
stderr_read(child, stdhndl, e_shell) ==
    IF e_shell /\ stdhndl = " 2>&1" THEN <<>> ELSE child.stderr

\* .decode("utf-8", errors="ignore"): bytes that are not UTF-8 are dropped
RECURSIVE decode_ignore(_)
decode_ignore(b) ==
    IF b = <<>> THEN <<>>
    ELSE (IF Head(b) < 128 THEN <<Chr(Head(b))>> ELSE <<>>)
         \o decode_ignore(Tail(b))

\* from_cmd, lines 7-19: the name subprocess is looked up at line 12; the
\* NameError of an unbound name is caught at line 18
from_cmd(cmd, stdhndl, e_shell, child) ==
    IF "subprocess" \notin hostinfo_imports
    THEN <<>>
    ELSE (IF child.returncode # 0 THEN <<>>
          ELSE decode_ignore(stdout_read(child, stdhndl, e_shell)
                             \o stderr_read(child, stdhndl, e_shell)))

\* from_cmd has not been called
NoHostCall ==
    [called |-> FALSE, cmd |-> "", stdhndl |-> "", e_shell |-> TRUE,
     child |-> [returncode |-> 0, stdout |-> <<>>, stderr |-> <<>>],
     out |-> <<>>, raised |-> FALSE]

(***************************************************************************)
(* Initial state: a harness process with its first Job constructed         *)
(***************************************************************************)
InitWeb ==
    /\ submission_state = [sub \in Submissions |-> "SUBMITTED"]
    /\ reupload = NoAnswer
    /\ full_test = {}
    /\ last_request = NoRequest
    /\ closing = NoClosing
    /\ course_owner = [c \in Courses |-> "root"]
    /\ course_tutors = [c \in Courses |-> {}]
    /\ listed = NoListing

InitJob ==
    /\ sys_path = <<"/usr/lib/python3">>
    /\ working_dir \in WorkingDirs
    /\ timeout \in Timeouts
    /\ online \in BOOLEAN
    /\ result_sent = FALSE
    /\ dircontent \in DirListings
    /\ pc = "ready"
    /\ old_path = <<>>
    /\ exc = NoException
    /\ reports = <<>>
    /\ wire = <<>>
    /\ calls = <<>>
    /\ path_at_call = sys_path
    /\ sent_at_end = 0
    /\ runs = 1
    /\ frame = NoCall
    /\ sys_modules = NoModule
    /\ validator_defs \in ValidatorFiles

InitHost == host_call = NoHostCall

Init == InitJob /\ InitWeb /\ InitHost

(***************************************************************************)
(* Operations                                                              *)
(***************************************************************************)
\* the process takes the next job: a new Job object in the same process
NewJob ==
    /\ pc \in {"returned", "raised"}
    /\ runs < MaxRuns
    /\ working_dir' \in WorkingDirs
    /\ timeout' \in Timeouts
    /\ online' \in BOOLEAN
    /\ dircontent' \in DirListings
    /\ validator_defs' \in ValidatorFiles
    /\ result_sent' = FALSE
    /\ pc' = "ready"
    /\ old_path' = <<>>
    /\ exc' = NoException
    /\ reports' = <<>>
    /\ wire' = <<>>
    /\ calls' = <<>>
    /\ path_at_call' = sys_path
    /\ sent_at_end' = 0
    /\ runs' = runs + 1
    /\ frame' = NoCall
    /\ UNCHANGED <<sys_path, sys_modules>>
    /\ UNCHANGED <<webvars, hostvars>>

\* _run_validate up to the call of validate(): the assert fails
RunValidateAssertFails ==
    /\ pc = "ready"
    /\ validator_script_name \notin dircontent
    /\ path_at_call' = sys_path
    /\ pc' = "raised"
    /\ UNCHANGED <<sys_path, working_dir, timeout, online, result_sent,
                   dircontent, old_path, exc, reports, wire, calls,
                   sent_at_end, runs, frame, sys_modules,
                   validator_defs>>
    /\ UNCHANGED <<webvars, hostvars>>

\* _run_validate up to the call of validate(): the path is extended and
\* the validator module is imported and reloaded, which runs its
\* top-level code; a validator.py that cannot be executed defines nothing
RunValidateLoad ==
    /\ pc = "ready"
    /\ validator_script_name \in dircontent
    /\ path_at_call' = sys_path
    /\ old_path' = sys_path
    /\ sys_path' = <<working_dir>> \o sys_path
    /\ \E import_ok \in BOOLEAN :
           IF import_ok
           THEN /\ sys_modules' =
                     reload(import_module(sys_modules, validator_defs, runs),
                            validator_defs, runs)
                /\ pc' = "validate"
           ELSE /\ UNCHANGED sys_modules
                /\ pc' = "raised"
    /\ UNCHANGED <<working_dir, timeout, online, result_sent, dircontent,
                   exc, reports, wire, calls, sent_at_end, runs, frame,
                   validator_defs>>
    /\ UNCHANGED <<webvars, hostvars>>

\* validate() calls job.send_pass_result()
ValidatorSendPass ==
    /\ pc = "validate"
    /\ Len(reports) < MaxReports
    /\ send_pass_result(DefaultInfoStudent, DefaultInfoTutor)
    /\ UNCHANGED <<sys_path, working_dir, timeout, online, dircontent, pc,
                   old_path, exc, path_at_call, sent_at_end, runs, frame,
                   sys_modules, validator_defs>>
    /\ UNCHANGED <<webvars, hostvars>>

\* validate() calls job.send_fail_result
ValidatorSendFail ==
    /\ pc = "validate"
    /\ Len(reports) < MaxReports
    /\ send_fail_result(<<"custom student text">>, <<"custom tutor text">>)
    /\ UNCHANGED <<sys_path, working_dir, timeout, online, dircontent, pc,
                   old_path, exc, path_at_call, sent_at_end, runs, frame,
                   sys_modules, validator_defs>>
    /\ UNCHANGED <<webvars, hostvars>>

\* validate() has called a method of Job, which has ended as c says
Called(c) ==
    /\ pc = "validate"
    /\ frame' = c
    /\ pc' = "called"
    /\ UNCHANGED <<sys_path, sys_modules>>
    /\ UNCHANGED jobfields
    /\ UNCHANGED <<webvars, hostvars>>

\* validate() calls job.run_configure
CallRunConfigure ==
    \E mandatory \in BOOLEAN, conf_ok \in BOOLEAN :
        /\ Called(run_configure([NoCall EXCEPT !.op = "run_configure",
                                               !.mandatory = mandatory],
                                mandatory, conf_ok))

\* validate() calls job.run_make
CallRunMake ==
    \E mandatory \in BOOLEAN, make_ok \in BOOLEAN :
        /\ Called(run_make([NoCall EXCEPT !.op = "run_make",
                                          !.mandatory = mandatory],
                           mandatory, make_ok))

\* validate() calls job.run_compiler
CallRunCompiler ==
    \E cc_ok \in BOOLEAN :
        /\ Called(run_compiler([NoCall EXCEPT !.op = "run_compiler"], cc_ok))

\* validate() calls job.run_build
CallRunBuild ==
    \E conf_ok \in BOOLEAN, make_ok \in BOOLEAN, cc_ok \in BOOLEAN :
        /\ Called(run_build([NoCall EXCEPT !.op = "run_build"],
                            conf_ok, make_ok, cc_ok))

\* validate() calls job.run_program: the command has ended when it returns
CallRunProgram ==
    \E name \in ProgramNames, arguments \in ProgramArguments,
       exclusive \in BOOLEAN, run_ok \in BOOLEAN :
        /\ Called(run_program([NoCall EXCEPT !.op = "run_program",
                                             !.exclusive = exclusive],
                              name, arguments, exclusive, run_ok))

\* validate() calls job.spawn_program
CallSpawnProgram ==
    \E name \in ProgramNames, arguments \in ProgramArguments,
       exclusive \in BOOLEAN :
        Called(spawn_program([NoCall EXCEPT !.op = "spawn_program",
                                            !.exclusive = exclusive],
                             name, arguments, exclusive))

\* validate() calls job.ensure_files
CallEnsureFiles ==
    \E filenames \in FileRequests :
        /\ Called(ensure_files([NoCall EXCEPT !.op = "ensure_files"],
                               filenames))

\* validate() goes on after the call: it has the returned value, or it
\* has caught what the call raised
ValidatorContinues ==
    /\ pc = "called"
    /\ pc' = "validate"
    /\ frame' = NoCall
    /\ UNCHANGED <<sys_path, sys_modules>>
    /\ UNCHANGED jobfields
    /\ UNCHANGED <<webvars, hostvars>>

\* validate() returns: lines 134-139
ValidateReturns ==
    /\ pc = "validate"
    /\ sent_at_end' = Len(reports)
    /\ IF ~result_sent
       THEN send_pass_result(DefaultInfoStudent, DefaultInfoTutor)
       ELSE UNCHANGED <<reports, wire, result_sent, calls>>
    /\ sys_path' = old_path
    /\ pc' = "returned"
    /\ UNCHANGED <<working_dir, timeout, online, dircontent, old_path, exc,
                   path_at_call, runs, frame, sys_modules,
                   validator_defs>>
    /\ UNCHANGED <<webvars, hostvars>>

\* the except block of _run_validate for the exception e, lines 102-133
ExceptBlock(e) ==
    /\ exc' = e
    /\ IF HandlerRaises(e)
       THEN /\ pc' = "raised"
            /\ UNCHANGED <<reports, wire, result_sent, calls>>
       ELSE /\ _send_result(TextStudent(e, timeout),
                            TextTutor(e, timeout), ErrorCodeOf(e))
            /\ calls' = Append(calls, "_run_validate")
            /\ pc' = "returned"
    /\ sent_at_end' = Len(reports)
    /\ frame' = NoCall
    /\ UNCHANGED <<sys_path, working_dir, timeout, online, dircontent,
                   old_path, path_at_call, runs, sys_modules,
                   validator_defs>>
    /\ UNCHANGED <<webvars, hostvars>>

\* code of validate() raises e
ValidateRaises ==
    /\ pc = "validate"
    /\ \E e \in Exceptions : ExceptBlock(e)

\* validate() does not catch what the called method raised
ValidatePropagates ==
    /\ pc = "called"
    /\ frame.raised # NoException
    /\ ExceptBlock(frame.raised)

NextJob ==
    \/ NewJob
    \/ RunValidateAssertFails
    \/ RunValidateLoad
    \/ ValidatorSendPass
    \/ ValidatorSendFail
    \/ CallRunConfigure
    \/ CallRunMake
    \/ CallRunCompiler
    \/ CallRunBuild
    \/ CallRunProgram
    \/ CallSpawnProgram
    \/ CallEnsureFiles
    \/ ValidatorContinues
    \/ ValidateReturns
    \/ ValidateRaises
    \/ ValidatePropagates

Next == NextJob

Spec == Init /\ [][Next]_vars

(***************************************************************************)
(* The web application on its own, next to an executor that stands still   *)
(***************************************************************************)
\* submission.state = state; submission.save()
SetSubmissionState ==
    \E sub \in Submissions, state \in SubmissionStates :
        /\ submission_state' = [submission_state EXCEPT ![sub] = state]
        /\ UNCHANGED <<reupload, full_test, last_request, closing,
                       course_owner, course_tutors, listed>>
        /\ UNCHANGED <<execvars, hostvars>>

\* submission.can_reupload(user), compared with what the test asserts
AskCanReupload ==
    \E sub \in Submissions :
        /\ reupload' =
             [sub |-> sub,
              answer |-> can_reupload(submission_state[sub],
                                      hard_deadline_passed(sub)),
              expected |-> expected_can_reupload(submission_state[sub],
                                                 sub)]
        /\ UNCHANGED <<submission_state, full_test, last_request, closing,
                       course_owner, course_tutors, listed>>
        /\ UNCHANGED <<execvars, hostvars>>

NextWeb ==
    \/ SetSubmissionState
    \/ AskCanReupload

\* the executor has one job and does not run it
InitSpecWeb ==
    /\ InitJob
    /\ working_dir = "/tmp/job1/"
    /\ timeout = 5
    /\ online
    /\ dircontent = {"validator.py", "main.c"}
    /\ validator_defs = {"validate"}
    /\ InitWeb
    /\ InitHost

SpecWeb == InitSpecWeb /\ [][NextWeb]_vars

(***************************************************************************)
(* The teacher backend on its own: requests of tutors to SubmissionAdmin.  *)
(* A request runs as one step, except closeAndNotifyAction, whose loop and *)
(* whose bulk update are two statements of the database with other         *)
(* requests of the server possibly in between.                             *)
(***************************************************************************)
\* SubmissionAdmin.save_model(request, obj, form, change)
SaveModel ==
    \E obj \in Submissions, post \in PostForms :
        /\ submission_state' =
             [submission_state EXCEPT
                ![obj] = save_model_state(submission_state[obj], post)]
        /\ last_request' =
             [op |-> "save_model", queryset |-> {obj}, post |-> post,
              saves |-> 1, informed |-> <<>>, message |-> <<>>]
        /\ UNCHANGED <<reupload, full_test, closing, course_owner,
                       course_tutors, listed>>
        /\ UNCHANGED <<execvars, hostvars>>

\* SubmissionAdmin.setFullPendingStateAction(request, queryset)
SetFullPendingStateAction ==
    \E queryset \in Querysets :
        LET qs == full_pending_qs(queryset)
            numchanged == Cardinality({sub \in qs : has_full_test(sub)})
        IN  /\ submission_state' =
                 [sub \in Submissions |->
                    IF sub \in qs THEN full_pending_state(sub)
                    ELSE submission_state[sub]]
            /\ last_request' =
                 [op |-> "setFullPendingStateAction",
                  queryset |-> queryset, post |-> NoPost,
                  saves |-> numchanged, informed |-> <<>>,
                  message |-> IF numchanged = 0 THEN NothingChanged
                              ELSE ChangedStatus(numchanged)]
            /\ UNCHANGED <<reupload, full_test, closing, course_owner,
                           course_tutors, listed>>
            /\ UNCHANGED <<execvars, hostvars>>

\* closeAndNotifyAction, lines 257-261: the loop over qs
CloseAndNotifyLoop ==
    \E queryset \in Querysets :
        /\ ~closing.active
        /\ closing' =
             [active |-> TRUE, queryset |-> queryset,
              informed |-> rows(close_qs(queryset)),
              mails |-> rows(close_qs(queryset))]
        /\ last_request' =
             [op |-> "closeAndNotifyAction.loop", queryset |-> queryset,
              post |-> NoPost, saves |-> 0,
              informed |-> rows(close_qs(queryset)), message |-> <<>>]
        /\ UNCHANGED <<submission_state, reupload, full_test, course_owner,
                       course_tutors, listed>>
        /\ UNCHANGED <<execvars, hostvars>>

\* closeAndNotifyAction, lines 262-266: qs.update and the message
CloseAndNotifyUpdate ==
    /\ closing.active
    /\ submission_state' =
         [sub \in Submissions |->
            IF sub \in close_qs(closing.queryset) THEN "CLOSED"
            ELSE submission_state[sub]]
    /\ last_request' =
         [op |-> "closeAndNotifyAction", queryset |-> closing.queryset,
          post |-> NoPost, saves |-> 0, informed |-> closing.informed,
          message |-> IF Len(closing.mails) = 0 THEN NothingClosed
                      ELSE MailSent(closing.mails)]
    /\ closing' = NoClosing
    /\ UNCHANGED <<reupload, full_test, course_owner, course_tutors, listed>>
    /\ UNCHANGED <<execvars, hostvars>>

NextAdmin ==
    \/ SaveModel
    \/ SetFullPendingStateAction
    \/ CloseAndNotifyLoop
    \/ CloseAndNotifyUpdate

\* submissions in any state the backend knows, the executor idle
InitSpecAdmin ==
    /\ InitJob
    /\ working_dir = "/tmp/job1/"
    /\ timeout = 5
    /\ online
    /\ dircontent = {"validator.py", "main.c"}
    /\ validator_defs = {"validate"}
    /\ submission_state \in [Submissions -> AdminStates]
    /\ reupload = NoAnswer
    /\ full_test \in FullTestChoices
    /\ last_request = NoRequest
    /\ closing = NoClosing
    /\ course_owner = [c \in Courses |-> "root"]
    /\ course_tutors = [c \in Courses |-> {}]
    /\ listed = NoListing
    /\ InitHost

SpecAdmin == InitSpecAdmin /\ [][NextAdmin]_vars

(***************************************************************************)
(* The change lists of the teacher backend, for courses with any owner and *)
(* any tutors                                                              *)
(***************************************************************************)
\* the change list of submissions is shown to a user
ListSubmissions ==
    \E user \in Users :
        /\ listed' = [admin |-> "SubmissionAdmin", user |-> user,
                      qs |-> SubmissionAdmin_get_queryset(user)]
        /\ UNCHANGED <<submission_state, reupload, full_test, last_request,
                       closing, course_owner, course_tutors>>
        /\ UNCHANGED <<execvars, hostvars>>

\* the change list of submission files is shown to a user
ListSubmissionFiles ==
    \E user \in Users :
        /\ listed' = [admin |-> "SubmissionFileAdmin", user |-> user,
                      qs |-> SubmissionFileAdmin_get_queryset(user)]
        /\ UNCHANGED <<submission_state, reupload, full_test, last_request,
                       closing, course_owner, course_tutors>>
        /\ UNCHANGED <<execvars, hostvars>>

\* the change list of courses is shown to a user
ListCourses ==
    \E user \in Users :
        /\ listed' = [admin |-> "CourseAdmin", user |-> user,
                      qs |-> CourseAdmin_get_queryset(user)]
        /\ UNCHANGED <<submission_state, reupload, full_test, last_request,
                       closing, course_owner, course_tutors>>
        /\ UNCHANGED <<execvars, hostvars>>

NextListing ==
    \/ ListSubmissions
    \/ ListSubmissionFiles
    \/ ListCourses

InitSpecListing ==
    /\ InitJob
    /\ working_dir = "/tmp/job1/"
    /\ timeout = 5
    /\ online
    /\ dircontent = {"validator.py", "main.c"}
    /\ validator_defs = {"validate"}
    /\ submission_state = [sub \in Submissions |-> "SUBMITTED"]
    /\ reupload = NoAnswer
    /\ full_test = {}
    /\ last_request = NoRequest
    /\ closing = NoClosing
    /\ course_owner \in [Courses -> Users]
    /\ course_tutors \in [Courses -> SUBSET Users]
    /\ listed = NoListing
    /\ InitHost

SpecListing == InitSpecListing /\ [][NextListing]_vars

(***************************************************************************)
(* The host information module on its own                                  *)
(***************************************************************************)
\* from_cmd(cmd, stdhndl, e_shell) with a child that behaves as child says
FromCmd ==
    \E cmd \in HostCommands, stdhndl \in StdHandles, child \in Children :
        /\ host_call' =
             [called |-> TRUE, cmd |-> cmd, stdhndl |-> stdhndl,
              e_shell |-> TRUE, child |-> child,
              out |-> from_cmd(cmd, stdhndl, TRUE, child),
              raised |-> FALSE]
        /\ UNCHANGED <<execvars, webvars>>

NextHost == FromCmd

InitSpecHost ==
    /\ InitJob
    /\ working_dir = "/tmp/job1/"
    /\ timeout = 5
    /\ online
    /\ dircontent = {"validator.py", "main.c"}
    /\ validator_defs = {"validate"}
    /\ InitWeb
    /\ InitHost

SpecHost == InitSpecHost /\ [][NextHost]_vars

TypeOK ==
    /\ pc \in PCs
    /\ (pc # "called" => frame = NoCall)
    /\ result_sent \in BOOLEAN
    /\ runs \in 1..MaxRuns
    /\ Len(reports) = Len(calls)

(***************************************************************************)
(* Properties of _run_validate                                             *)
(***************************************************************************)
\* the report made last for the current job
LastReport == reports[Len(reports)]

\* validate() ended by raising a RunningProgramException with this cause
RaisedInteractive(cause) ==
    /\ exc.type = "RunningProgramException"
    /\ exc.real_exception = cause

\* C1: in every run of _run_validate that returns, _send_result has been
\* performed exactly once and result_sent has become true, whatever
\* validate() did before it returned or raised.
C1_ExactlyOneReport ==
    pc = "returned" => (Len(reports) = 1 /\ result_sent)

\* C2: no failure raised during a run of _run_validate propagates out of
\* it, be it raised while loading the validator, in validate() or in the
\* handling of what validate() raised.
C2_NothingPropagates == pc # "raised"

\* C3: when _run_validate has ended, by return or by exception, sys.path
\* equals its value at the time of the call.
C3_PathRestored ==
    pc \in {"returned", "raised"} => sys_path = path_at_call

\* C4: if validate() returns normally while result_sent is false,
\* _run_validate makes exactly one report, with ErrorCode 0 and the two
\* default texts, and transmits it iff the job is online.
C4_FallbackPass ==
    [][(pc = "validate" /\ pc' = "returned" /\ exc' = NoException
        /\ ~result_sent)
       => /\ reports' = Append(reports,
                 [Message |-> <<"All tests passed. Awesome!">>,
                  MessageTutor |-> <<"All tests passed.">>,
                  ExecutorDir |-> working_dir, ErrorCode |-> 0])
          /\ Len(wire') = Len(wire) + (IF online THEN 1 ELSE 0)
          /\ result_sent']_vars

C4_Witness ==
    /\ pc = "returned"
    /\ exc = NoException
    /\ sent_at_end = 0
    /\ Len(reports) = 1
    /\ LastReport.ErrorCode = 0

\* C5: if validate() made a report itself, _run_validate makes no further
\* report after validate() has ended.
C5_NoReportAfterValidatorReport ==
    (pc = "returned" /\ sent_at_end > 0) => Len(reports) = sent_at_end

\* C6 as stated: after a RunningProgramException caused by pexpect.EOF the
\* reported ErrorCode is the exit status whenever it is known, 0 included,
\* and -9999 only when it is None.
C6_ExitStatusAlwaysReported ==
    (pc = "returned" /\ RaisedInteractive("EOF"))
    => LastReport.ErrorCode = (IF exc.exitstatus = None
                               THEN -9999
                               ELSE exc.exitstatus[1])

\* C6 amended: after a RunningProgramException caused by pexpect.EOF the
\* reported ErrorCode is the exit status when that is known and not 0, and
\* -9999 when it is None or 0; both texts say that the program terminated
\* unexpectedly and end with the output captured so far.
C6_ExitStatusReportedUnlessZero ==
    (pc = "returned" /\ RaisedInteractive("EOF"))
    => /\ LastReport.ErrorCode = (IF exc.exitstatus \in {None, <<0>>}
                                  THEN -9999
                                  ELSE exc.exitstatus[1])
       /\ LastReport.Message
            = <<"Your program terminated unexpectedly.",
                "\n\nOutput so far: ">> \o Decode(exc.before)
       /\ LastReport.MessageTutor
            = <<"The student program terminated unexpectedly.",
                "\n\nOutput so far: ">> \o Decode(exc.before)

C6_Witness ==
    /\ pc = "returned"
    /\ RaisedInteractive("EOF")
    /\ exc.exitstatus = <<0>>
    /\ exc.before # <<>>
    /\ LastReport.ErrorCode = -9999

\* C7: after a RunningProgramException caused by pexpect.TIMEOUT the report
\* has ErrorCode -9999 and both texts hold the job's timeout, followed by
\* the output captured so far.
C7_TimeoutReport ==
    (pc = "returned" /\ RaisedInteractive("TIMEOUT"))
    => /\ LastReport.ErrorCode = -9999
       /\ LastReport.Message
            = <<"The execution of your program was cancelled, since it took longer than ",
                ToString(timeout), " seconds. ",
                "\n\nOutput so far: ">> \o Decode(exc.before)
       /\ LastReport.MessageTutor
            = <<"The execution of the program was cancelled due to the timeout of ",
                ToString(timeout), " seconds. ",
                "\n\nOutput so far: ">> \o Decode(exc.before)

C7_Witness ==
    /\ pc = "returned"
    /\ RaisedInteractive("TIMEOUT")
    /\ timeout = 5
    /\ exc.before # <<>>
    /\ LastReport.Message[2] = "5"

\* C8 as stated: after a JobException the texts are info_student and
\* info_tutor, and the ErrorCode is the code of the Result the exception
\* carries when there is one, else -9999.
C8_SpecificCodeReported ==
    (pc = "returned" /\ exc.type = "JobException")
    => /\ LastReport.Message = exc.info_student
       /\ LastReport.MessageTutor = exc.info_tutor
       /\ LastReport.ErrorCode = (IF exc.result_exit = None
                                  THEN -9999
                                  ELSE exc.result_exit[1])

\* C8 amended: after a JobException the texts are info_student and
\* info_tutor, and the ErrorCode is -9999 whatever the exception carries.
C8_JobExceptionReport ==
    (pc = "returned" /\ exc.type = "JobException")
    => /\ LastReport.Message = exc.info_student
       /\ LastReport.MessageTutor = exc.info_tutor
       /\ LastReport.ErrorCode = -9999

C8_Witness ==
    /\ pc = "returned"
    /\ exc.type = "JobException"
    /\ exc.result_exit = <<2>>
    /\ LastReport.ErrorCode = -9999
    /\ LastReport.Message = <<"student: ", "gcc failed">>

\* the class of a raised exception, by what it is
ExceptionClass(e) ==
    {c \in {"termination", "timeout", "interactive", "harness",
            "unanticipated"} :
        \/ c = "termination" /\ e.type = "RunningProgramException"
                             /\ e.real_exception = "EOF"
        \/ c = "timeout" /\ e.type = "RunningProgramException"
                         /\ e.real_exception = "TIMEOUT"
        \/ c = "interactive" /\ e.type = "RunningProgramException"
                             /\ e.real_exception \notin {"EOF", "TIMEOUT"}
        \/ c = "harness" /\ e.type = "JobException"
        \/ c = "unanticipated"
             /\ e.type \notin {"RunningProgramException", "JobException"}}

\* the leading chunk of the text the submitter gets
FirstChunk(r) == IF r.Message = <<>> THEN "" ELSE r.Message[1]

\* the class of a report, by the text the submitter gets
ReportClass(r) ==
    {c \in {"termination", "timeout", "interactive", "harness",
            "unanticipated"} :
        \/ c = "termination"
             /\ FirstChunk(r) = "Your program terminated unexpectedly."
        \/ c = "timeout"
             /\ FirstChunk(r) = "The execution of your program was cancelled, since it took longer than "
        \/ c = "interactive"
             /\ FirstChunk(r) = "Unexpected problem during the execution of your program. "
        \/ c = "harness" /\ FirstChunk(r) = "student: "
        \/ c = "unanticipated"
             /\ FirstChunk(r) = "Internal problem while validating your submission. "}

\* C9: every exception raised by validate() is reported as exactly one of
\* the five classes, the one it belongs to; an exception that is neither a
\* RunningProgramException nor a JobException is reported with ErrorCode
\* -9999 and the two fixed texts, each followed by the exception's text.
C9_ClassificationTotalExclusive ==
    (pc = "returned" /\ exc # NoException)
    => /\ Cardinality(ExceptionClass(exc)) = 1
       /\ ReportClass(LastReport) = ExceptionClass(exc)
       /\ (exc.type \notin {"RunningProgramException", "JobException"}
           => LastReport
              = [Message |-> <<"Internal problem while validating your submission. ",
                               exc.text>>,
                 MessageTutor |-> <<"Unknown exception while running the validator. ",
                                    exc.text>>,
                 ExecutorDir |-> working_dir, ErrorCode |-> -9999])

C9_Witness ==
    /\ pc = "returned"
    /\ exc.type = "KeyError"
    /\ ReportClass(LastReport) = {"unanticipated"}
    /\ LastReport.ErrorCode = -9999

\* C10: every report made by send_fail_result or by the except block of
\* _run_validate has an ErrorCode that is not 0 and is -9999 or the exit
\* status of the child; a report with ErrorCode 0 is made by
\* send_pass_result.
C10_ZeroOnlyForSuccess ==
    \A i \in 1..Len(reports) :
        /\ (calls[i] \in {"send_fail_result", "_run_validate"}
            => /\ reports[i].ErrorCode # 0
               /\ \/ reports[i].ErrorCode = -9999
                  \/ /\ calls[i] = "_run_validate"
                     /\ exc.exitstatus = <<reports[i].ErrorCode>>)
        /\ (reports[i].ErrorCode = 0 => calls[i] = "send_pass_result")

C10_Witness ==
    /\ pc = "returned"
    /\ RaisedInteractive("EOF")
    /\ exc.exitstatus = <<0>>
    /\ Len(reports) = 2
    /\ calls = <<"send_fail_result", "_run_validate">>
    /\ reports[1].ErrorCode = -9999
    /\ reports[2].ErrorCode = -9999

(***************************************************************************)
(* Properties of the build, run and query methods                          *)
(***************************************************************************)
\* validate() has called this method and the call has ended
Ended(op) == pc = "called" /\ frame.op = op

\* the tools the call ran, by name
EventTools == [i \in 1..Len(frame.events) |-> frame.events[i].tool]

\* the call ran this tool and it gave a Result that is not ok
ToolFailed(tool) ==
    \E i \in 1..Len(frame.events) :
        frame.events[i].tool = tool /\ ~frame.events[i].ok

\* the call ran this tool
ToolRan(tool) == \E i \in 1..Len(frame.events) : frame.events[i].tool = tool

\* the call raised a JobException that carries the Result of its last tool
RaisedJobExceptionOfLast ==
    /\ frame.raised.type = "JobException"
    /\ frame.events # <<>>
    /\ frame.carried = frame.events[Len(frame.events)]

\* C11: run_build raises iff the compiler returns a Result that is not ok;
\* with no configure script, a failing configure or a failing make it does
\* not raise for that and still runs the compiler.
C11_BuildRaisesOnlyOnCompile ==
    Ended("run_build")
    => /\ ToolRan("compiler")
       /\ (frame.raised # NoException <=> ToolFailed("compiler"))

\* C12: run_compiler raises a JobException carrying the Result whenever the
\* Result is not ok; run_make does so iff mandatory and the Result is not
\* ok; run_make(mandatory=False) and a failing configure under
\* run_configure(mandatory=False) never raise, and in run_build the next
\* step follows them.
C12_StepsRaiseWhenMandatory ==
    /\ Ended("run_compiler")
       => /\ (frame.raised # NoException <=> ToolFailed("compiler"))
          /\ (frame.raised # NoException => RaisedJobExceptionOfLast)
    /\ Ended("run_make")
       => /\ (frame.raised # NoException
              <=> (frame.mandatory /\ ToolFailed("make")))
          /\ (frame.raised # NoException => RaisedJobExceptionOfLast)
    /\ (Ended("run_configure") /\ ~frame.mandatory /\ ToolRan("configure"))
       => frame.raised = NoException
    /\ (Ended("run_build") /\ ToolRan("configure"))
       => (ToolRan("make") /\ ToolRan("compiler"))

C12_Witness ==
    /\ Ended("run_configure")
    /\ ~frame.mandatory
    /\ ToolFailed("configure")
    /\ frame.raised = NoException

\* the place of a build step in run_build
StepRank(tool) ==
    IF tool = "configure" THEN 1 ELSE IF tool = "make" THEN 2 ELSE 3

\* C13: within one run_build call configure, make and the compiler run in
\* this order, one after the other has ended, and each at most once.
C13_BuildStepsOrdered ==
    Ended("run_build")
    => \A i, j \in 1..Len(frame.events) :
           i < j => StepRank(frame.events[i].tool)
                    < StepRank(frame.events[j].tool)

C13_Witness ==
    /\ Ended("run_build")
    /\ EventTools = <<"configure", "make", "compiler">>
    /\ ToolFailed("configure")
    /\ ToolFailed("make")

\* C14: a call of run_program or spawn_program with exclusive=True first
\* completes kill_longrunning and then starts the new command; with
\* exclusive=False it terminates no process.
C14_ExclusiveKillsThenStarts ==
    (Ended("run_program") \/ Ended("spawn_program"))
    => IF frame.exclusive
       THEN /\ Len(frame.events) = 2
            /\ frame.events[1].tool = "kill_longrunning"
            /\ frame.events[2].tool \in {"shell_execution", "RunningProgram"}
       ELSE ~ToolRan("kill_longrunning")

\* C16: run_program with exclusive=False runs the command line name +
\* arguments once; it raises a JobException carrying the Result iff the
\* Result is not ok, and else returns the Result of that run.
C16_RunProgramReturnsResult ==
    (Ended("run_program") /\ ~frame.exclusive)
    => /\ EventTools = <<"shell_execution">>
       /\ frame.cmdline \in {<<"./a.out">>, <<"./a.out", "-v">>}
       /\ (frame.raised # NoException <=> ToolFailed("shell_execution"))
       /\ (frame.raised # NoException => RaisedJobExceptionOfLast)
       /\ (frame.raised = NoException
           => frame.retval = [kind |-> "Result", tool |-> "shell_execution",
                              ok |-> TRUE])

\* C17: ensure_files returns true iff every requested name is in the
\* listing of the working directory, and it changes neither the directory
\* nor any field of the Job.
C17_EnsureFilesPureQuery ==
    [][(pc = "validate" /\ pc' = "called" /\ frame'.op = "ensure_files")
       => /\ frame'.retval
               = [kind |-> "bool", tool |-> "none",
                  ok |-> \A i \in 1..Len(frame'.filenames) :
                             frame'.filenames[i] \in dircontent]
          /\ frame'.raised = NoException
          /\ UNCHANGED <<sys_path, sys_modules>>
          /\ UNCHANGED jobfields]_vars

C17_Witness ==
    /\ Ended("ensure_files")
    /\ frame.filenames = <<"main.c", "test.c">>
    /\ "main.c" \in dircontent
    /\ frame.retval.ok = FALSE
    /\ result_sent

\* C18: every call of _send_result leaves result_sent true, online or not;
\* an online job has transmitted every report once, an offline job has
\* transmitted nothing.
C18_SendMarksAndTransmits ==
    /\ (reports # <<>> => result_sent)
    /\ (online => wire = reports)
    /\ (~online => wire = <<>>)

C18_Witness ==
    /\ ~online
    /\ Len(reports) = 2
    /\ wire = <<>>
    /\ result_sent

\* C19: in every run validate() sees a freshly loaded validator: every
\* global of the module, validate included, was defined by the load of
\* this run, from the validator.py of this job.
C19_FreshValidator ==
    pc \in {"validate", "called"}
    => /\ sys_modules["validate"] = runs
       /\ \A n \in GlobalNames : sys_modules[n] \in {0, runs}

(***************************************************************************)
(* Properties of the web application                                       *)
(***************************************************************************)
\* C20: for a student can_reupload is true iff the state of the submission
\* is TEST_COMPILE_FAILED, TEST_VALIDITY_FAILED or TEST_FULL_FAILED and
\* the hard deadline of its assignment has not passed; the test's
\* assertions agree.
C20_ReuploadOnlyAfterFailedTest ==
    [][\A sub \in Submissions :
          (reupload' # reupload /\ reupload'.sub = sub)
          => /\ reupload'.answer
                  = (/\ submission_state[sub] \in {"TEST_COMPILE_FAILED",
                                                   "TEST_VALIDITY_FAILED",
                                                   "TEST_FULL_FAILED"}
                     /\ sub # "hardDeadlinePassedAssignmentSub")
             /\ reupload'.answer = reupload'.expected]_vars

C20_Witness ==
    /\ reupload.sub = "hardDeadlinePassedAssignmentSub"
    /\ submission_state["hardDeadlinePassedAssignmentSub"]
         = "TEST_VALIDITY_FAILED"
    /\ submission_state["openAssignmentSub"] = "TEST_VALIDITY_FAILED"
    /\ reupload.answer = FALSE

(***************************************************************************)
(* Properties of the result_sent flag                                      *)
(***************************************************************************)
\* C21: result_sent does not block reporting: a call of send_pass_result
\* or send_fail_result made while result_sent is already true builds one
\* more payload and, for an online job, transmits it.
C21_FlagDoesNotBlock ==
    [][(/\ result_sent
        /\ runs' = runs
        /\ Len(calls') = Len(calls) + 1
        /\ calls'[Len(calls')] \in {"send_pass_result", "send_fail_result"})
       => /\ Len(reports') = Len(reports) + 1
          /\ SubSeq(reports', 1, Len(reports)) = reports
          /\ wire' = IF online
                     THEN Append(wire, reports'[Len(reports')])
                     ELSE wire]_vars

C21_Witness ==
    /\ online
    /\ calls = <<"send_fail_result", "send_pass_result">>
    /\ Len(wire) = 2
    /\ wire[1].ErrorCode = UNSPECIFIC_ERROR
    /\ wire[2].ErrorCode = 0

\* C26: within one Job result_sent never goes back to false, and it changes
\* only in a step that calls _send_result.
C26_ResultSentMonotone ==
    [][runs' = runs
       => /\ (result_sent => result_sent')
          /\ (result_sent' # result_sent
                => Len(reports') = Len(reports) + 1)]_vars

C26_Witness ==
    /\ result_sent
    /\ pc = "called"
    /\ frame.op = "run_build"
    /\ Len(reports) = 1

(***************************************************************************)
(* Properties of the teacher backend                                       *)
(***************************************************************************)
\* how often x occurs in seq
Count(x, seq) == Cardinality({i \in DOMAIN seq : seq[i] = x})

\* the step ends a closeAndNotifyAction
CloseEnds == closing.active /\ ~closing'.active

\* the step is a request of this kind
Request(op) == last_request' # last_request /\ last_request'.op = op

\* C22: closeAndNotifyAction, run with no other request between its loop
\* and its update, moves to CLOSED exactly the selected submissions in
\* state GRADED and calls inform_student once for each of them; every
\* other submission keeps its state and gets no notification.
C22_CloseExactlyGraded ==
    [][(CloseEnds /\ last_request.op = "closeAndNotifyAction.loop")
       => \A sub \in Submissions :
             IF sub \in closing.queryset /\ submission_state[sub] = "GRADED"
             THEN /\ submission_state'[sub] = "CLOSED"
                  /\ Count(sub, closing.informed) = 1
             ELSE /\ submission_state'[sub] = submission_state[sub]
                  /\ Count(sub, closing.informed) = 0]_vars

C22_Witness ==
    /\ last_request.op = "closeAndNotifyAction"
    /\ last_request.queryset = Submissions
    /\ last_request.informed
         = <<"openAssignmentSub", "softDeadlinePassedAssignmentSub">>
    /\ submission_state["openAssignmentSub"] = "CLOSED"
    /\ submission_state["softDeadlinePassedAssignmentSub"] = "CLOSED"
    /\ submission_state["hardDeadlinePassedAssignmentSub"]
         = "GRADING_IN_PROGRESS"

\* C23: setFullPendingStateAction changes exactly the selected submissions
\* in state SUBMITTED_TESTED, TEST_FULL_FAILED or CLOSED whose assignment
\* has a full test: CLOSED becomes CLOSED_TEST_FULL_PENDING, the other two
\* TEST_FULL_PENDING; the message reports the number of submissions
\* changed, or that nothing changed.
C23_FullPendingOnlyTestable ==
    [][Request("setFullPendingStateAction")
       => LET changed == {sub \in Submissions :
                            submission_state'[sub] # submission_state[sub]}
          IN  /\ \A sub \in Submissions :
                    submission_state'[sub] =
                      IF /\ sub \in last_request'.queryset
                         /\ assignment_of(sub) \in full_test
                         /\ submission_state[sub]
                              \in {"SUBMITTED_TESTED", "TEST_FULL_FAILED",
                                   "CLOSED"}
                      THEN (IF submission_state[sub] = "CLOSED"
                            THEN "CLOSED_TEST_FULL_PENDING"
                            ELSE "TEST_FULL_PENDING")
                      ELSE submission_state[sub]
              /\ last_request'.message =
                    IF changed = {} THEN NothingChanged
                    ELSE ChangedStatus(Cardinality(changed))]_vars

C23_Witness ==
    /\ last_request.op = "setFullPendingStateAction"
    /\ last_request.queryset = Submissions
    /\ last_request.message = ChangedStatus(2)
    /\ "hardDeadlinePassedAssignment" \notin full_test
    /\ submission_state["openAssignmentSub"] = "CLOSED_TEST_FULL_PENDING"
    /\ submission_state["softDeadlinePassedAssignmentSub"]
         = "TEST_FULL_PENDING"
    /\ submission_state["hardDeadlinePassedAssignmentSub"] = "CLOSED"

\* C24: save_model sets the state of the object to GRADED for the posted
\* newstate 'finished', to GRADING_IN_PROGRESS for 'unfinished', and keeps
\* it when newstate is absent or has another value; it saves the object
\* once and touches no other submission.
C24_SaveModelState ==
    [][Request("save_model")
       => \A obj \in last_request'.queryset :
             LET post == last_request'.post
             IN  /\ submission_state'[obj] =
                       IF post = [k \in {"newstate"} |-> "finished"]
                       THEN "GRADED"
                       ELSE IF post = [k \in {"newstate"} |-> "unfinished"]
                       THEN "GRADING_IN_PROGRESS"
                       ELSE submission_state[obj]
                 /\ \A sub \in Submissions \ {obj} :
                       submission_state'[sub] = submission_state[sub]
                 /\ last_request'.saves = 1]_vars

C24_Witness ==
    /\ last_request.op = "save_model"
    /\ last_request.queryset = {"openAssignmentSub"}
    /\ last_request.post = [k \in {"newstate"} |-> "reopen"]
    /\ submission_state["openAssignmentSub"] = "WITHDRAWN"

\* C27: with other requests running between the loop and the update of
\* closeAndNotifyAction, every submission that the action moves to CLOSED
\* has had inform_student called for it by that action.
C27_ClosedOnlyAfterNotification ==
    [][CloseEnds
       => \A sub \in Submissions :
             (/\ submission_state[sub] # "CLOSED"
              /\ submission_state'[sub] = "CLOSED")
             => Count(sub, closing.informed) >= 1]_vars

(***************************************************************************)
(* Properties of the change lists                                          *)
(***************************************************************************)
\* the user is a tutor or the owner of the course
TutorOrOwner(user, course) ==
    user \in course_tutors[course] \/ course_owner[course] = user

\* the objects of this admin that belong to a course of the user
Visible(admin, user) ==
    IF admin = "SubmissionAdmin"
    THEN {sub \in Submissions :
            TutorOrOwner(user, course_of(assignment_of(sub)))}
    ELSE IF admin = "SubmissionFileAdmin"
    THEN {SubmissionFiles[i] : i \in
            {j \in DOMAIN SubmissionFiles :
               \E sub \in submissions_of(SubmissionFiles[j]) :
                  TutorOrOwner(user, course_of(assignment_of(sub)))}}
    ELSE {course \in Courses : TutorOrOwner(user, course)}

\* all objects of this admin
AllObjects(admin) ==
    IF admin = "SubmissionAdmin" THEN Submissions
    ELSE IF admin = "SubmissionFileAdmin"
    THEN {SubmissionFiles[i] : i \in DOMAIN SubmissionFiles}
    ELSE Courses

\* C25: what get_queryset of SubmissionAdmin, SubmissionFileAdmin and
\* CourseAdmin lists for a user who is not a superuser are exactly the
\* objects that belong to a course of which the user is a tutor or the
\* owner, each once; a superuser is listed all objects.
C25_ListsOwnCoursesOnly ==
    listed.admin # "none"
    => /\ \A i, j \in DOMAIN listed.qs :
             listed.qs[i] = listed.qs[j] => i = j
       /\ {listed.qs[i] : i \in DOMAIN listed.qs}
            = IF is_superuser(listed.user) THEN AllObjects(listed.admin)
              ELSE Visible(listed.admin, listed.user)

\* the owner of both courses, each with two tutors, lists the submission
\* files: the join has several rows for a file, the list has it once
C25_Witness ==
    /\ listed.admin = "SubmissionFileAdmin"
    /\ listed.user = "tutorA"
    /\ \A c \in Courses : course_owner[c] = "tutorA"
    /\ \A c \in Courses : course_tutors[c] = {"tutorA", "tutorB"}
    /\ listed.qs = <<"file1", "file2">>

(***************************************************************************)
(* Properties of the host information module                               *)
(***************************************************************************)
\* C28: from_cmd never raises; it returns the text that the command wrote
\* to stdout and stderr when the command exits with status 0, and the
\* empty string when it exits with another status.
C28_FromCmdReturnsOutput ==
    host_call.called
    => /\ ~host_call.raised
       /\ host_call.out =
            IF host_call.child.returncode = 0
            THEN decode_ignore(host_call.child.stdout
                               \o host_call.child.stderr)
            ELSE <<>>

====
